---- MODULE Spec2Model ----
(***************************************************************************)
(* Model of the Factory library: Factory<Interface> (the per-interface     *)
(* table of creation functions and its createObject), AddProduction (the   *)
(* registrar whose constructor fills the table) and AbstractFactory (the   *)
(* forwarding facade).                                                     *)
(*                                                                         *)
(* Registrations are constructions of AddProduction objects; they run one  *)
(* at a time and never while a createObject call is in flight (the library *)
(* has no locking, registrations belong to static initialisation).         *)
(* createObject calls run on several threads and interleave statement by   *)
(* statement.                                                              *)
(***************************************************************************)
EXTENDS Integers, Sequences, FiniteSets, TLC

\* Bound on the number of AddProduction objects constructed in one run.
MaxRegs == 3

Interfaces == {"I1", "I2"}
Producers  == {"P1", "P2", "P3"}
Threads    == {"t1", "t2"}

\* Production::typeId(): P1 and P3 chose the same identifier.
typeId(p) == IF p = "P2" THEN "b" ELSE "a"

\* Identifiers a caller may pass to createObject; "c" belongs to no producer.
TypeIds == {"a", "b", "c"}

\* std::shared_ptr< Interface > (nullptr): a pointer to no object
Null == [class |-> "nullptr"]
\* a default-constructed (null) function pointer, the value operator[] inserts
NullFn == "nullfn"
\* no registration, no call
NoReg == [iface |-> "none", prod |-> "none"]
NoCall == [via |-> "none", iface |-> "none", id |-> "none"]

\* Production::createObject, as a value stored in the table: the function is
\* identified by the class it belongs to.
createObjectFn(p) == p

\* Invoking a stored creation function: new PRODUCTION.
Invoke(fn) == [class |-> fn]

Instances == {Invoke(p) : p \in Producers}

VARIABLES
    assertEnabled,      \* build configuration: is factoryAssert compiled in
    produceFunctions,   \* per interface: the dictionary, a set of <<id, fn>>
    warnings,           \* what was written to warningOutput, in order
    aborted,            \* the process was terminated
    failedAssert,       \* the registration whose factoryAssert failed
    regLog,             \* history: the completed registrations, in order
    pc,                 \* per thread: position inside createObject
    call,               \* per thread: entry point and arguments of the call
    object,             \* per thread: the local variable `object`
    invoked             \* per thread: creation functions invoked by the call

vars == <<assertEnabled, produceFunctions, warnings, aborted, failedAssert,
          regLog, pc, call, object, invoked>>

regVars  == <<assertEnabled, warnings, failedAssert, regLog>>

----------------------------------------------------------------------------
\* The dictionary (QHash / std::map) as a set of <<key, value>> entries.

\* DictType::count (key)
DictCount(d, k) == Cardinality({e \in d : e[1] = k})

\* Variant: the lookup ignores the key and yields the value of some entry.
DictValueAny(d, k) == (CHOOSE e \in d : TRUE)[2]

\* the value operator[] refers to once the key is present
DictValue(d, k) == (CHOOSE e \in d : e[1] = k)[2]

\* DictType::operator[] (key): a missing key is inserted with a default value
DictIndex(d, k) == IF DictCount(d, k) > 0 THEN d ELSE d \cup {<<k, NullFn>>}

\* Variant: insert semantics, an existing entry is kept.
DictInsertIfAbsent(d, k, v) == IF DictCount(d, k) > 0 THEN d ELSE d \cup {<<k, v>>}

\* Variant: the dictionary is started afresh by every store.
DictAssignReset(d, k, v) == {<<k, v>>}

\* DictType::operator[] (key) = value
DictAssign(d, k, v) == {e \in DictIndex(d, k) : e[1] # k} \cup {<<k, v>>}

----------------------------------------------------------------------------
Init ==
    /\ assertEnabled \in BOOLEAN
    /\ produceFunctions = [i \in Interfaces |-> {}]
    /\ warnings = <<>>
    /\ aborted = FALSE
    /\ failedAssert = NoReg
    /\ regLog = <<>>
    /\ pc = [t \in Threads |-> "idle"]
    /\ call = [t \in Threads |-> NoCall]
    /\ object = [t \in Threads |-> Null]
    /\ invoked = [t \in Threads |-> {}]

\* the condition handed to factoryAssert
AssertCondition(i, p) == DictCount(produceFunctions[i], typeId(p)) > 0

\* Variant: the warning looks at whether the table holds anything at all.
IsDuplicateAnyEntry(i, p) == produceFunctions[i] # {}

\* the condition of the if that guards the warning
IsDuplicate(i, p) == DictCount(produceFunctions[i], typeId(p)) > 0

\* Variant: the stored function is compared after the new one was stored.
DuplicateWarningsAfterStore(i, p) ==
    <<[kind |-> "second", id |-> typeId(p), iface |-> i, prod |-> p],
      [kind |-> IF DictValue(DictAssign(produceFunctions[i], typeId(p), createObjectFn(p)),
                             typeId(p)) = createObjectFn(p)
                THEN "same" ELSE "another",
       id |-> typeId(p), iface |-> i, prod |-> p]>>

\* the two messages written for a duplicate
DuplicateWarnings(i, p) ==
    <<[kind |-> "second", id |-> typeId(p), iface |-> i, prod |-> p],
      [kind |-> IF DictValue(DictIndex(produceFunctions[i], typeId(p)), typeId(p))
                       = createObjectFn(p)
                THEN "same" ELSE "another",
       id |-> typeId(p), iface |-> i, prod |-> p]>>

\* Variant: one table shared by the factories of all interfaces.
StoreProductionShared(tables, i, p) ==
    [j \in Interfaces |-> DictAssign(tables[j], typeId(p), createObjectFn(p))]

\* Factory< Interfase >::produceFunctions () [Production::typeId()] = Production::createObject
StoreProduction(tables, i, p) ==
    [tables EXCEPT ![i] = DictAssign(tables[i], typeId(p), createObjectFn(p))]

\* AddProduction< i, p >::AddProduction ()
AddProduction(i, p) ==
    /\ ~aborted
    /\ \A t \in Threads : pc[t] = "idle"
    /\ Len(regLog) < MaxRegs
    /\ IF assertEnabled /\ ~AssertCondition(i, p)
       THEN /\ aborted' = TRUE
            /\ failedAssert' = [iface |-> i, prod |-> p]
            /\ UNCHANGED <<produceFunctions, warnings, regLog>>
       ELSE /\ warnings' = IF IsDuplicate(i, p)
                           THEN warnings \o DuplicateWarnings(i, p)
                           ELSE warnings
            /\ produceFunctions' = StoreProduction(produceFunctions, i, p)
            /\ regLog' = Append(regLog, [iface |-> i, prod |-> p])
            /\ UNCHANGED <<aborted, failedAssert>>
    /\ UNCHANGED <<assertEnabled, pc, call, object, invoked>>

----------------------------------------------------------------------------
\* Factory< i >::createObject (id), entered directly:
\* std::shared_ptr< Interface > object (nullptr);
FactoryCall(t, i, id) ==
    /\ ~aborted
    /\ pc[t] = "idle"
    /\ pc' = [pc EXCEPT ![t] = "count"]
    /\ call' = [call EXCEPT ![t] = [via |-> "Factory", iface |-> i, id |-> id]]
    /\ object' = [object EXCEPT ![t] = Null]
    /\ invoked' = [invoked EXCEPT ![t] = {}]
    /\ UNCHANGED <<regVars, produceFunctions, aborted>>

\* AbstractFactory::createObject< i > (id): return Factory< Interface >::createObject (i_type_id)
AbstractFactoryCall(t, i, id) ==
    /\ ~aborted
    /\ pc[t] = "idle"
    /\ pc' = [pc EXCEPT ![t] = "count"]
    /\ call' = [call EXCEPT ![t] = [via |-> "AbstractFactory", iface |-> i, id |-> id]]
    /\ object' = [object EXCEPT ![t] = Null]
    /\ invoked' = [invoked EXCEPT ![t] = {}]
    /\ UNCHANGED <<regVars, produceFunctions, aborted>>

\* Variant: the call through AbstractFactory lands in one fixed factory.
FactoryOfFixed(c) == IF c.via = "AbstractFactory" THEN "I1" ELSE c.iface

\* the Factory instantiation whose createObject runs the call c:
\* Factory< Interface > for both entry points
FactoryOf(c) == c.iface

\* Variant: the test is on the table being populated, not on the key.
KnownTypeIdAnyEntry(d, id) == d # {}

\* Variant: the test is missing.
KnownTypeIdAlways(d, id) == TRUE

\* the condition of the if in createObject
KnownTypeId(d, id) == DictCount(d, id) > 0

\* if (produceFunctions ().count (i_type_id))
LookupCount(t) ==
    /\ ~aborted
    /\ pc[t] = "count"
    /\ pc' = [pc EXCEPT ![t] =
                 IF KnownTypeId(produceFunctions[FactoryOf(call[t])], call[t].id)
                 THEN "fetch" ELSE "ret"]
    /\ UNCHANGED <<regVars, produceFunctions, aborted, call, object, invoked>>

\* Variant: the entry is taken out of the dictionary when it is used.
FetchTableTake(d, id) == {e \in d : e[1] # id}

\* the dictionary after produceFunctions () [i_type_id] was evaluated
FetchTable(d, id) == DictIndex(d, id)

\* the function produceFunctions () [i_type_id] yields
FetchFunction(d, id) == DictValue(DictIndex(d, id), id)

\* object = produceFunctions () [i_type_id]();
\* calling a null function pointer is undefined: the process may die or the
\* call may leave anything in object.
LookupFetch(t) ==
    /\ ~aborted
    /\ pc[t] = "fetch"
    /\ LET i  == FactoryOf(call[t])
           id == call[t].id
           fn == FetchFunction(produceFunctions[i], id)
       IN /\ produceFunctions' =
                 [produceFunctions EXCEPT ![i] = FetchTable(produceFunctions[i], id)]
          /\ IF fn = NullFn
             THEN /\ aborted' \in BOOLEAN
                  /\ object' \in {[object EXCEPT ![t] = o] : o \in Instances \cup {Null}}
                  /\ UNCHANGED invoked
             ELSE /\ object' = [object EXCEPT ![t] = Invoke(fn)]
                  /\ invoked' = [invoked EXCEPT ![t] = invoked[t] \cup {fn}]
                  /\ UNCHANGED aborted
    /\ pc' = [pc EXCEPT ![t] = "ret"]
    /\ UNCHANGED <<regVars, call>>

\* return object; the caller takes the result and the thread is free again
LookupReturn(t) ==
    /\ ~aborted
    /\ pc[t] = "ret"
    /\ pc' = [pc EXCEPT ![t] = "idle"]
    /\ call' = [call EXCEPT ![t] = NoCall]
    /\ object' = [object EXCEPT ![t] = Null]
    /\ invoked' = [invoked EXCEPT ![t] = {}]
    /\ UNCHANGED <<regVars, produceFunctions, aborted>>

Next ==
    \/ \E i \in Interfaces, p \in Producers : AddProduction(i, p)
    \/ \E t \in Threads, i \in Interfaces, id \in TypeIds : FactoryCall(t, i, id)
    \/ \E t \in Threads, i \in Interfaces, id \in TypeIds : AbstractFactoryCall(t, i, id)
    \/ \E t \in Threads : LookupCount(t)
    \/ \E t \in Threads : LookupFetch(t)
    \/ \E t \in Threads : LookupReturn(t)

Spec == Init /\ [][Next]_vars

----------------------------------------------------------------------------
\* What the history of completed registrations says.

\* positions in regLog of the registrations of identifier id for interface i
RegsFor(i, id) ==
    {k \in 1..Len(regLog) : regLog[k].iface = i /\ typeId(regLog[k].prod) = id}

IsRegistered(i, id) == RegsFor(i, id) # {}

\* the producers that registered identifier id for interface i
RegisteredProducers(i, id) == {regLog[k].prod : k \in RegsFor(i, id)}

\* the producer of the most recently executed registration of id for i
LastRegistered(i, id) ==
    regLog[CHOOSE k \in RegsFor(i, id) : \A j \in RegsFor(i, id) : j <= k].prod

\* thread t is about to return from a createObject call
Returning(t) == pc[t] = "ret"

----------------------------------------------------------------------------
\* C1: when two producers P and Q are registered for the same interface
\* under distinct identifiers, each the only producer of its identifier, a
\* createObject call for P's identifier returns the instance made by P's
\* creation function and invokes no creation function but P's.
C1_DistinctIdsResolve ==
    \A t \in Threads : \A p \in Producers, q \in Producers :
        ( /\ Returning(t)
          /\ typeId(p) # typeId(q)
          /\ RegisteredProducers(call[t].iface, typeId(p)) = {p}
          /\ RegisteredProducers(call[t].iface, typeId(q)) = {q}
          /\ call[t].id = typeId(p) )
        => /\ object[t] = Invoke(createObjectFn(p))
           /\ invoked[t] = {createObjectFn(p)}

C1_Witness ==
    \E t \in Threads :
        /\ Returning(t)
        /\ call[t].id = "b"
        /\ RegisteredProducers(call[t].iface, "a") = {"P1"}
        /\ RegisteredProducers(call[t].iface, "b") = {"P2"}
        /\ regLog[1].prod = "P2"
        /\ object[t] = Invoke("P2")

\* C2: a createObject call for an identifier that no registration of the
\* interface has used returns nullptr, has invoked no creation function and
\* has not terminated the process.
C2_UnknownIsAbsent ==
    \A t \in Threads :
        (Returning(t) /\ ~IsRegistered(call[t].iface, call[t].id))
        => /\ object[t] = Null
           /\ invoked[t] = {}
           /\ ~aborted

C2_Witness ==
    \E t \in Threads :
        /\ Returning(t)
        /\ call[t].id = "c"
        /\ Len(regLog) = 2
        /\ produceFunctions[call[t].iface] # {}
        /\ object[t] = Null

\* C3: a registration writes the duplicate warning exactly when the
\* identifier already has an entry in the interface's table at that moment,
\* which is exactly when the (interface, identifier) pair was registered
\* before; a registration stopped by the assertion writes nothing.
C3_WarnIffDuplicate ==
    [][ /\ (Len(regLog') = Len(regLog) + 1) =>
              LET e == regLog'[Len(regLog')]
                  emitted == Len(warnings') > Len(warnings)
              IN /\ emitted <=> DictCount(produceFunctions[e.iface], typeId(e.prod)) > 0
                 /\ emitted <=> IsRegistered(e.iface, typeId(e.prod))
                 /\ emitted => /\ Len(warnings') = Len(warnings) + 2
                               /\ warnings'[Len(warnings) + 1].kind = "second"
                               /\ warnings'[Len(warnings) + 1].id = typeId(e.prod)
                               /\ warnings'[Len(warnings) + 1].iface = e.iface
        /\ (Len(regLog') = Len(regLog)) => warnings' = warnings
      ]_vars

\* the same pair registered three times: the second and the third warned
C3_Witness ==
    /\ Len(regLog) = 3
    /\ \E i \in Interfaces : Cardinality(RegsFor(i, "a")) = 3
    /\ Len(warnings) = 4

\* C4: without the assertion compiled in, no registration terminates the
\* process, and an identifier registered more than once for an interface
\* has exactly one entry, the creation function of the most recently
\* executed registration, which is what createObject then invokes.
C4_LastWriteWins ==
    ~assertEnabled =>
        /\ ~aborted
        /\ \A i \in Interfaces : \A id \in TypeIds :
               Cardinality(RegsFor(i, id)) >= 2 =>
                   /\ DictCount(produceFunctions[i], id) = 1
                   /\ <<id, createObjectFn(LastRegistered(i, id))>> \in produceFunctions[i]
                   /\ \A t \in Threads :
                          (Returning(t) /\ call[t].iface = i /\ call[t].id = id)
                          => object[t] = Invoke(createObjectFn(LastRegistered(i, id)))

C4_Witness ==
    \E t \in Threads :
        /\ Returning(t)
        /\ call[t].id = "a"
        /\ Len(regLog) = 2
        /\ regLog[1] = [iface |-> call[t].iface, prod |-> "P3"]
        /\ regLog[2] = [iface |-> call[t].iface, prod |-> "P1"]
        /\ object[t] = Invoke("P1")

\* C5: the table of an interface holds only what registrations for that
\* interface stored, and a createObject call on an interface returns an
\* instance only for an identifier registered for that interface.
C5_NoCrossContamination ==
    \A i \in Interfaces :
        /\ \A e \in produceFunctions[i] :
               \E k \in RegsFor(i, e[1]) : createObjectFn(regLog[k].prod) = e[2]
        /\ \A t \in Threads :
               (Returning(t) /\ call[t].iface = i /\ object[t] # Null)
               => IsRegistered(i, call[t].id)

\* "a" is registered for I1 only, and a lookup of "a" on I2 is returning
C5_Witness ==
    \E t \in Threads :
        /\ Returning(t)
        /\ call[t] = [via |-> "Factory", iface |-> "I2", id |-> "a"]
        /\ IsRegistered("I1", "a")
        /\ ~IsRegistered("I2", "a")
        /\ IsRegistered("I2", "b")
        /\ object[t] = Null

\* the registrations completed for interface i
RegistrarsOf(i) == {k \in 1..Len(regLog) : regLog[k].iface = i}

\* the registrars run for interface i have pairwise distinct identifiers
DistinctIds(i) ==
    \A j \in RegistrarsOf(i), k \in RegistrarsOf(i) :
        j # k => typeId(regLog[j].prod) # typeId(regLog[k].prod)

\* C6: when the registrars run for an interface have pairwise distinct
\* identifiers, the table is determined by the set of registrars alone,
\* whatever their order, and every one of their identifiers resolves to its
\* own producer.
C6_OrderIndependent ==
    \A i \in Interfaces :
        DistinctIds(i) =>
            /\ produceFunctions[i] =
                   {<<typeId(regLog[k].prod), createObjectFn(regLog[k].prod)>> :
                        k \in RegistrarsOf(i)}
            /\ \A t \in Threads : \A k \in RegistrarsOf(i) :
                   (Returning(t) /\ call[t].iface = i
                        /\ call[t].id = typeId(regLog[k].prod))
                   => object[t] = Invoke(createObjectFn(regLog[k].prod))

\* P3 then P2 (the reverse of C1's order of identifiers), first one resolves
C6_Witness ==
    \E t \in Threads :
        /\ Returning(t)
        /\ Len(regLog) >= 2
        /\ regLog[1] = [iface |-> call[t].iface, prod |-> "P3"]
        /\ regLog[2] = [iface |-> call[t].iface, prod |-> "P2"]
        /\ DistinctIds(call[t].iface)
        /\ call[t].id = "a"
        /\ object[t] = Invoke("P3")

\* C7: a call through AbstractFactory returns what a direct call of
\* Factory<I>::createObject with the same interface and identifier returns,
\* and no step of a call through AbstractFactory changes a table.
C7_FacadePassThrough ==
    /\ [](\A t \in Threads, u \in Threads :
             ( /\ Returning(t) /\ Returning(u)
               /\ call[t].via = "AbstractFactory" /\ call[u].via = "Factory"
               /\ call[t].iface = call[u].iface /\ call[t].id = call[u].id )
             => object[t] = object[u] /\ invoked[t] = invoked[u])
    /\ [][\A t \in Threads :
             (pc'[t] # pc[t]
                  /\ (IF pc[t] = "idle" THEN call'[t].via ELSE call[t].via)
                         = "AbstractFactory")
             => produceFunctions' = produceFunctions]_vars

C7_Witness ==
    /\ Returning("t1") /\ Returning("t2")
    /\ call["t1"] = [via |-> "AbstractFactory", iface |-> "I2", id |-> "b"]
    /\ call["t2"] = [via |-> "Factory", iface |-> "I2", id |-> "b"]
    /\ IsRegistered("I1", "a")
    /\ object["t1"] = Invoke("P2")

\* C8: an identifier once registered for an interface stays in the
\* interface's table through every later registration and lookup, and a
\* createObject call for it never returns nullptr.
C8_NoUnregistration ==
    \A i \in Interfaces : \A id \in TypeIds :
        IsRegistered(i, id) =>
            /\ DictCount(produceFunctions[i], id) >= 1
            /\ \A t \in Threads :
                   (Returning(t) /\ call[t].iface = i /\ call[t].id = id)
                   => object[t] # Null

\* "b" was registered first, two more registrations followed, a second
\* lookup of "b" is running while the first one returns
C8_Witness ==
    /\ Len(regLog) = 3
    /\ regLog[1].prod = "P2"
    /\ regLog[2].iface = regLog[1].iface /\ regLog[2].prod = "P1"
    /\ regLog[3].iface = regLog[1].iface /\ regLog[3].prod = "P3"
    /\ Returning("t1")
    /\ call["t1"].iface = regLog[1].iface /\ call["t1"].id = "b"
    /\ pc["t2"] = "fetch" /\ call["t2"] = call["t1"]
    /\ object["t1"] = Invoke("P2")

\* C9: the assertion of the registrar fails only for a duplicate: a
\* registration whose identifier is not yet registered never fails it.
C9_AssertFailsOnlyOnDuplicate ==
    failedAssert # NoReg => IsRegistered(failedAssert.iface, typeId(failedAssert.prod))

\* C10: no step of a createObject call, hit or miss, changes a table, and
\* two calls with the same interface and identifier that are returning
\* together, interleaved in any way, return the same outcome.
C10_LookupReadOnly ==
    /\ [][(\E t \in Threads : pc'[t] # pc[t]) => produceFunctions' = produceFunctions]_vars
    /\ [](\A t \in Threads, u \in Threads :
             ( /\ Returning(t) /\ Returning(u)
               /\ call[t].iface = call[u].iface /\ call[t].id = call[u].id )
             => object[t] = object[u])

\* a miss on a populated table, and a hit by the other thread
C10_Witness ==
    /\ Returning("t1") /\ Returning("t2")
    /\ call["t1"].iface = "I1" /\ call["t1"].id = "b"
    /\ call["t2"].iface = "I1" /\ call["t2"].id = "a"
    /\ object["t1"] = Null
    /\ object["t2"] = Invoke("P3")
    /\ produceFunctions["I1"] = {<<"a", "P3">>}

\* C11: the second message of a duplicate registration of producer P says
\* "same" exactly when the function stored under P's identifier before the
\* overwrite is P's own creation function, that is when the previous
\* registration of the identifier was made by P, and "another" exactly
\* when that function belongs to a different producer.
C11_ReportDistinguishesProducer ==
    [][ (Len(regLog') = Len(regLog) + 1 /\ Len(warnings') > Len(warnings)) =>
            LET e      == regLog'[Len(regLog')]
                stored == DictValue(produceFunctions[e.iface], typeId(e.prod))
                report == warnings'[Len(warnings')]
            IN /\ Len(warnings') = Len(warnings) + 2
               /\ report.kind \in {"same", "another"}
               /\ report.kind = "same" <=> stored = createObjectFn(e.prod)
               /\ report.kind = "another" <=> stored \in {createObjectFn(q) : q \in Producers \ {e.prod}}
               /\ report.kind = "same" <=> LastRegistered(e.iface, typeId(e.prod)) = e.prod
      ]_vars

\* P1, P1 again (the same class), then P3 under P1's identifier (another)
C11_Witness ==
    /\ Len(regLog) = 3
    /\ Len(warnings) = 4
    /\ warnings[2].kind = "same" /\ warnings[2].prod = "P1"
    /\ warnings[4].kind = "another" /\ warnings[4].prod = "P3"
    /\ <<"a", "P3">> \in produceFunctions[warnings[4].iface]

====
